---- MODULE Spec2Model ----
(***************************************************************************)
(* Model of the helios-starling runtime kernel (@helios-starling/utils):   *)
(* the outbound Request object, the RequestsManager tables, the            *)
(* RequestQueue, the send buffer, the resolver and handleMessage, the      *)
(* inbound request dispatcher with its RequestContext and Method, the      *)
(* topic matcher, the TopicsManager, the MethodsManager, the base message  *)
(* validator and notify.                                                   *)
(*                                                                         *)
(* JavaScript runs each task to completion, so every action below is one   *)
(* task (a call from the application, a timer callback, an inbound frame,  *)
(* a connection event) together with the microtasks it schedules.          *)
(***************************************************************************)
EXTENDS Integers, Sequences, FiniteSets, TLC

\* ------------------------------------------------------------------ bounds
\* Number of Request objects constructed in one run.
MaxReq == 2
\* Number of inbound request frames dispatched in one run.
MaxCtx == 1
\* Number of success()/error() calls a handler makes on its context.
MaxReplies == 2
\* maxSize of the RequestQueue under test (its N).
MaxSize == 1
\* Number of requests handed to RequestQueue.add in one run.
MaxAdds == 3
\* Number of frames given to starling.send in one run.
MaxFrames == 3
\* Number of connected intervals of the transport in one run.
MaxEpochs == 2
\* Number of colon-separated segments of a topic or a pattern.
MaxSegs == 2
\* Number of subscriptions made in one run.
MaxSubs == 2

\* ------------------------------------------------------------- JS values
\* Payload values as they travel in a response frame's data field.
DataVals == {"0", "false", "''", "obj"}

\* JavaScript truthiness of a modelled value.
Falsy(v) == v \in {"0", "false", "''", "null", "undefined"}

\* The JavaScript expression  v || null.
OrNull(v) == IF Falsy(v) THEN "null" ELSE v

\* Request options the application may pass: timeout in ms, noResponse.
ReqOptions ==
    { [timeout |-> 50, noResponse |-> FALSE],
      [timeout |-> 0,  noResponse |-> FALSE],
      [timeout |-> 50, noResponse |-> TRUE] }

Ids == 1..(IF MaxAdds > MaxReq THEN MaxAdds ELSE MaxReq)
\* An id no Request of this node ever had.
ForeignId == 0

VARIABLES
    req,        \* id -> the Request object with that id
    created,    \* number of Request objects constructed so far
    owned,      \* ids of the requests the application holds a reference to
    active,     \* RequestsManager._activeRequests, in insertion order
    expired,    \* RequestsManager._expiredRequests (its keys)
    last,       \* what the last operation let its caller or a listener observe
    ctx,        \* inbound request number -> its RequestContext and dispatch
    nctx,       \* number of inbound request frames dispatched so far
    qcfg,       \* RequestQueue._options, fixed at construction
    queue,      \* RequestQueue._queue: its entries in insertion order
    waiters,    \* requests whose add() is parked in _waitForSpace
    connected,  \* starling.isConnected
    processing, \* RequestQueue._processing, as it stands between two tasks
    drainArmed, \* the drain monitor's timer is armed
    micro,      \* the queue's continuations in the microtask queue, oldest first
    snapshot,   \* ids left in the sorted copy a priority pass iterates over
    wsReady,    \* starling._ws.readyState, -1 while _ws is null
    buf,        \* frames held by starling._buffer, oldest first
    wire,       \* the calls of _ws.send so far, in order
    epoch,      \* connected intervals the send buffer has seen begin
    nadd,       \* number of frames given to starling.send so far
    inbound,    \* what handleMessage did with the last raw message delivered
    matcher,    \* the last topic matcher created and what it said of a topic
    subs,       \* the subscriptions of the TopicsManager, in registration order
    topicRun,   \* what the last TopicsManager.handleNotification did
    registry,   \* MethodsManager._methods: method name -> its handler, or "none"
    checked     \* the call made of a validator or of notify: its arguments and what came back

reqVars == <<req, created, owned>>
mgrVars == <<active, expired>>
dispVars == <<ctx, nctx>>
queueVars == <<qcfg, queue, waiters, connected, processing, drainArmed, micro, snapshot>>
bufVars == <<buf, wire, epoch, nadd>>
topicVars == <<matcher, subs, topicRun>>
vars == <<req, created, owned, active, expired, last, ctx, nctx,
          qcfg, queue, waiters, connected, processing, drainArmed, micro, snapshot,
          wsReady, buf, wire, epoch, nadd, inbound, matcher, subs, topicRun,
          registry, checked>>

\* The observable outcome of an operation: an exception that escaped it
\* (kind "throw"), an event it emitted (kind "event"), a listener set of the
\* request it fired (kind "listener"), the value it returned (kind "return"),
\* or nothing.
Quiet == [kind |-> "none", id |-> ForeignId, what |-> "none"]
Threw(id, exc) == [kind |-> "throw", id |-> id, what |-> exc]
Emitted(id, ev) == [kind |-> "event", id |-> id, what |-> ev]
Fired(id, listener) == [kind |-> "listener", id |-> id, what |-> listener]
Returned(id, value) == [kind |-> "return", id |-> id, what |-> value]

\* --------------------------------------------------------------- Request
\* The state of a Request right after its constructor.
NewRequest(opts) ==
    [ st         |-> "pending",
      result     |-> "null",
      error      |-> "null",
      promise    |-> FALSE,       \* _promise (and _resolve/_reject) are set
      timer      |-> FALSE,       \* _timeout is armed
      opts       |-> opts,
      sent       |-> 0,           \* request frames handed to starling.send
      emSuccess  |-> 0,           \* times the success listeners were fired
      emError    |-> 0,           \* times the error listeners were fired
      emComplete |-> 0 ]          \* times the complete listeners were fired

\* A slot whose Request has not been constructed yet.
NoRequest == [NewRequest([timeout |-> 0, noResponse |-> FALSE]) EXCEPT !.st = "none"]

\* Request._handleError: no guard on the state; _reject is null (a TypeError)
\* until execute() has created the promise.
ReqRawError(r, code) ==
    [ r     |-> [r EXCEPT !.timer = FALSE, !.st = "rejected", !.error = code,
                          !.emError = @ + 1, !.emComplete = @ + 1],
      threw |-> ~r.promise ]

\* Request.handleError
ReqHandleError(r, code) ==
    IF r.st # "pending" THEN [r |-> r, threw |-> FALSE] ELSE ReqRawError(r, code)

\* Request.cancel
ReqCancel(r) ==
    IF r.st # "pending" THEN [r |-> r, threw |-> FALSE]
    ELSE ReqRawError(r, "REQUEST_CANCELLED")

\* Request.handleResponse: _resolve is null until execute() has run.
ReqHandleResponse(r, data) ==
    IF r.st # "pending" THEN [r |-> r, threw |-> FALSE]
    ELSE [ r     |-> [r EXCEPT !.timer = FALSE, !.st = "fulfilled", !.result = data,
                               !.emSuccess = @ + 1, !.emComplete = @ + 1],
           threw |-> ~r.promise ]

\* An execute() that sends the frame on every call.
ReqExecuteEveryCall(r) ==
    [r EXCEPT !.promise = TRUE, !.sent = @ + 1,
              !.timer = (r.opts.timeout > 0 /\ ~r.opts.noResponse)]

\* Request.execute: guarded by _promise only; sends the frame and arms the timer.
ReqExecute(r) ==
    IF r.promise THEN r
    ELSE [r EXCEPT !.promise = TRUE, !.sent = @ + 1,
                   !.timer = (r.opts.timeout > 0 /\ ~r.opts.noResponse)]

\* The callback of Request._startTimeout.
ReqTimerFire(r) == ReqRawError(r, "REQUEST_TIMEOUT").r

\* Request.handleNotification: which listener set is fired for a notification
\* whose type field is `type`.
ReqListenerFor(type) == IF type = "progress" THEN "progress" ELSE "notification"

TypeErr == "TypeError"

\* What the caller of a Request method observes: the TypeError, if any.
Outcome(id, out) == IF out.threw THEN Threw(id, TypeErr) ELSE Quiet

\* ------------------------------------------------- the application's calls
\* The application constructs a Request itself (new Request(starling, ...)).
AppNewRequest(opts) ==
    /\ created < MaxReq
    /\ req' = [req EXCEPT ![created + 1] = NewRequest(opts)]
    /\ created' = created + 1
    /\ owned' = owned \cup {created + 1}
    /\ last' = Quiet
    /\ UNCHANGED <<mgrVars, dispVars, inbound, topicVars, registry, checked, bufVars, queueVars, wsReady>>

\* request.execute() on a request the caller holds.
AppExecute(id) ==
    /\ id \in owned
    /\ req' = [req EXCEPT ![id] = ReqExecute(@)]
    /\ last' = Quiet
    /\ UNCHANGED <<created, owned, mgrVars, dispVars, inbound, topicVars, registry, checked, bufVars, queueVars, wsReady>>

\* request.cancel(reason) on a request the caller holds.
AppCancel(id) ==
    /\ id \in owned
    /\ req' = [req EXCEPT ![id] = ReqCancel(@).r]
    /\ last' = Outcome(id, ReqCancel(req[id]))
    /\ UNCHANGED <<created, owned, mgrVars, dispVars, inbound, topicVars, registry, checked, bufVars, queueVars, wsReady>>

\* request.handleResponse({data}) on a request the caller holds.
AppHandleResponse(id, data) ==
    /\ id \in owned
    /\ req' = [req EXCEPT ![id] = ReqHandleResponse(@, data).r]
    /\ last' = Outcome(id, ReqHandleResponse(req[id], data))
    /\ UNCHANGED <<created, owned, mgrVars, dispVars, inbound, topicVars, registry, checked, bufVars, queueVars, wsReady>>

\* request.handleError(error) on a request the caller holds.
AppHandleError(id, code) ==
    /\ id \in owned
    /\ req' = [req EXCEPT ![id] = ReqHandleError(@, code).r]
    /\ last' = Outcome(id, ReqHandleError(req[id], code))
    /\ UNCHANGED <<created, owned, mgrVars, dispVars, inbound, topicVars, registry, checked, bufVars, queueVars, wsReady>>

\* request.handleNotification(notification) on a request the caller holds.
AppHandleNotification(id, type) ==
    /\ id \in owned
    /\ last' = Fired(id, ReqListenerFor(type))
    /\ UNCHANGED <<reqVars, mgrVars, dispVars, inbound, topicVars, registry, checked, bufVars, queueVars, wsReady>>

\* ------------------------------------------------------------------ timers
\* The timer armed by Request._startTimeout fires.
TimeoutFire(id) ==
    /\ micro = <<>>
    /\ id \in Ids
    /\ req[id].timer
    /\ req' = [req EXCEPT ![id] = ReqTimerFire(@)]
    /\ last' = Quiet
    /\ UNCHANGED <<created, owned, mgrVars, dispVars, inbound, topicVars, registry, checked, bufVars, queueVars, wsReady>>

\* -------------------------------------------------------- RequestsManager
SeqToSet(s) == {s[i] : i \in 1..Len(s)}

\* RequestsManager.execute: the request is constructed and tracked, then
\* request.finally(...) is called; Request defines no finally, so the call
\* is a TypeError and neither the cleanup hook nor queue.add is reached.
MgrExecute(opts) ==
    /\ created < MaxReq
    /\ req' = [req EXCEPT ![created + 1] = NewRequest(opts)]
    /\ created' = created + 1
    /\ active' = Append(active, created + 1)
    /\ last' = Threw(created + 1, TypeErr)
    /\ UNCHANGED <<owned, expired, dispVars, inbound, topicVars, registry, checked, bufVars, queueVars, wsReady>>

\* The error field of a response frame: present exactly when success is false.
FrameError(success) == IF success THEN "undefined" ELSE "REMOTE_ERROR"

\* The ResponseContext built by handleMessage.onResponse for a response frame:
\* data is  (response.data || null) || null,  error likewise, and success is
\* (response.success || false) || !error.
ResponseContext(success, data) ==
    [ data    |-> OrNull(OrNull(data)),
      success |-> success \/ Falsy(OrNull(FrameError(success))),
      error   |-> OrNull(OrNull(FrameError(success))) ]

\* RequestsManager._handleUnknownResponse: the event it emits.
UnknownResponseEvent(id) ==
    IF id \in expired THEN "request:late_response" ELSE "request:unknown_response"

\* An inbound response frame (peer = false) for request id `id`:
\* handleMessage.onResponse -> handleResponse -> RequestsManager.handleResponse.
MgrHandleResponse(id, success, data) ==
    LET response == ResponseContext(success, data)
        out == IF response.success THEN ReqHandleResponse(req[id], response.data)
               ELSE ReqHandleError(req[id], response.error)
    IN  IF id \notin SeqToSet(active)
        THEN /\ last' = Emitted(id, UnknownResponseEvent(id))
             /\ UNCHANGED <<reqVars, mgrVars, dispVars, inbound, topicVars, registry, checked, bufVars, queueVars, wsReady>>
        ELSE /\ req' = [req EXCEPT ![id] = out.r]
             /\ last' = IF out.threw THEN Threw(id, TypeErr)
                        ELSE Emitted(id, "request:completed")
             /\ UNCHANGED <<created, owned, mgrVars, dispVars, inbound, topicVars, registry, checked, bufVars, queueVars, wsReady>>

\* An inbound notification frame carrying requestId `id` (peer = false):
\* the NotificationContext is built from {topic, data} only, so its type is
\* undefined whatever the frame's data says.
NotificationContextType(frameType) == "undefined"

MgrHandleNotification(id, frameType) ==
    /\ id \in SeqToSet(active)
    /\ last' = Fired(id, ReqListenerFor(NotificationContextType(frameType)))
    /\ UNCHANGED <<reqVars, mgrVars, dispVars, inbound, topicVars, registry, checked, bufVars, queueVars, wsReady>>

\* ------------------------------------------------------------ RequestQueue
\* The queue options under test: maxSize and the full policy vary, the
\* others keep the constructor's defaults.
QueueConfigs ==
    { [maxSize |-> MaxSize, onFull |-> p, maxConcurrent |-> 10, priorityQueuing |-> FALSE] :
        p \in {"drop", "error", "block"} }

\* A queue that admits one request at a time.
SerialConfig ==
    [maxSize |-> 1000, onFull |-> "block", maxConcurrent |-> 1, priorityQueuing |-> FALSE]

\* A queue with priority ordering switched on.
PriorityConfig ==
    [maxSize |-> 1000, onFull |-> "block", maxConcurrent |-> 10, priorityQueuing |-> TRUE]

\* Request options that carry metadata.priority.
Priorities == {0, 1}
PriorityOptions ==
    { [timeout |-> 50, noResponse |-> FALSE, priority |-> p] : p \in Priorities }

\* request._options.metadata?.priority || 0
PriorityOf(r) == IF "priority" \in DOMAIN r.opts THEN r.opts.priority ELSE 0

\* The entry add() stores for a request without metadata.priority.
QueueEntry(id) == [id |-> id, retryCount |-> 0, priority |-> 0]

\* The entry add() stores for request r.
EntryFor(id, r) == [QueueEntry(id) EXCEPT !.priority = PriorityOf(r)]

\* A capacity test that lets one entry too many in.
QueueFullStrict(q, cfg) == Len(q) > cfg.maxSize

\* The capacity test of add().
QueueFull(q, cfg) == Len(q) >= cfg.maxSize

\* A continuation waiting in the microtask queue: a pass of _processQueue
\* suspended at  await withRetry(...)  for entry id, or an add() released
\* from _waitForSpace.
PassTask(id) == [k |-> "pass", id |-> id]
AddTask(id) == [k |-> "add", id |-> id]

\* RequestQueue._activeCount: incremented before the await, decremented in
\* the finally after it.
ActiveCount(mq) == Cardinality({n \in 1..Len(mq) : mq[n].k = "pass"})

\* RequestQueue._canProcess
CanProcess(q, busy, conn, nactive, cfg) ==
    ~busy /\ Len(q) > 0 /\ conn /\ nactive < cfg.maxConcurrent

EntryIds(q) == [n \in 1..Len(q) |-> q[n].id]

\* Map.delete(id) on the queue.
QueueDelete(q, id) == SelectSeq(q, LAMBDA e : e.id # id)

\* Array.prototype.sort with (a, b) => b.priority - a.priority: descending,
\* stable.
RECURSIVE InsertByPriority(_, _)
InsertByPriority(sorted, e) ==
    IF sorted = <<>> THEN <<e>>
    ELSE IF Head(sorted).priority >= e.priority
         THEN <<Head(sorted)>> \o InsertByPriority(Tail(sorted), e)
         ELSE <<e>> \o sorted

RECURSIVE SortByPriority(_)
SortByPriority(q) ==
    IF q = <<>> THEN <<>>
    ELSE InsertByPriority(SortByPriority(SubSeq(q, 1, Len(q) - 1)), q[Len(q)])

\* Whether an Events object has a member named events: the class is an
\* emitter with on, emit and use.
EventsHasEvents == FALSE

\* BaseStarling._send(message), _ws.send accepting the frame (ok) or throwing:
\* the event emitted and what _send throws. Its catch emits through
\* this.events.events.
StarlingSend(ok) ==
    IF ok THEN [event |-> "message:send:success", threw |-> "none"]
    ELSE IF EventsHasEvents THEN [event |-> "message:send:failed", threw |-> "none"]
    ELSE [event |-> "none", threw |-> TypeErr]

\* What starling.send does with the frame of execute(): accepts it or throws.
SendOutcomes == {"ok", "throws"}
SendError == "SendError"

\* Request.execute when starling.send may throw: the executor's catch hands
\* the error to _handleError, after _resolve/_reject were set.
ReqExecuteSend(r, send) ==
    IF r.promise \/ send = "ok" THEN ReqExecute(r)
    ELSE ReqRawError([r EXCEPT !.promise = TRUE], SendError).r

\* Whether the operation withRetry is given,  () => { entry.request.execute() },
\* throws: execute() never does.
OperationThrows(send) == FALSE

\* withRetry: the number of attempts it makes and whether it rejects, for an
\* operation that throws on every attempt or on none.
WithRetry(throws, maxRetries) ==
    [attempts |-> IF throws THEN maxRetries ELSE 1, rejected |-> throws /\ maxRetries > 0]

\* The part of the program a scheduling step works on.
QS == [req |-> req, queue |-> queue, micro |-> micro, snapshot |-> snapshot,
       processing |-> processing, waiters |-> waiters, drainArmed |-> drainArmed]

Install(S) ==
    /\ req' = S.req
    /\ queue' = S.queue
    /\ micro' = S.micro
    /\ snapshot' = S.snapshot
    /\ processing' = S.processing
    /\ waiters' = S.waiters
    /\ drainArmed' = S.drainArmed

\* One turn of the for loop of _processQueue up to its await: the entry's
\* request is executed inside withRetry and the pass is suspended.
RunEntry(S, id, send) ==
    [S EXCEPT !.req[id] = ReqExecuteSend(@, send), !.micro = Append(@, PassTask(id))]

\* RequestQueue._resolveDrain: every add() parked on the drain promise is
\* released, in the order it parked.
ResolveDrain(S) ==
    [S EXCEPT !.micro = @ \o [n \in 1..Len(S.waiters) |-> AddTask(S.waiters[n])],
              !.waiters = <<>>]

\* RequestQueue._processQueue from its call to its first await. With
\* priorityQueuing the entries are a sorted copy taken now; without, the
\* live iterator of the Map.
ProcessQueue(S, conn, cfg, send) ==
    IF ~CanProcess(S.queue, S.processing, conn, ActiveCount(S.micro), cfg) THEN S
    ELSE LET entries == EntryIds(IF cfg.priorityQueuing THEN SortByPriority(S.queue)
                                 ELSE S.queue)
         IN  RunEntry([S EXCEPT !.processing = TRUE,
                                !.snapshot = IF cfg.priorityQueuing THEN Tail(entries) ELSE <<>>],
                      Head(entries), send)

\* The outer finally of _processQueue.
ProcessQueueEnd(S, conn, cfg, send) ==
    LET S1 == [S EXCEPT !.processing = FALSE, !.snapshot = <<>>]
    IN  IF CanProcess(S1.queue, FALSE, conn, ActiveCount(S1.micro), cfg)
        THEN ProcessQueue(S1, conn, cfg, send)
        ELSE IF Len(S1.queue) = 0 THEN ResolveDrain(S1) ELSE S1

\* _processQueue resumed after its await for entry id: the entry is deleted
\* ('queue:removed' re-arms or clears the drain timer), or failed when
\* withRetry rejected; then the loop takes its next entry or ends.
ProcessQueueResume(S, conn, cfg, send) ==
    LET id == Head(S.micro).id
        failed == WithRetry(OperationThrows(send), 3).rejected
        q1 == QueueDelete(S.queue, id)
        S1 == [S EXCEPT !.micro = Tail(@), !.queue = q1,
                        !.req[id] = IF failed THEN ReqHandleError(@, "QUEUE_RETRY_EXCEEDED").r ELSE @,
                        !.drainArmed = IF failed THEN @ ELSE Len(q1) > 0]
        more == IF cfg.priorityQueuing THEN S.snapshot # <<>> ELSE q1 # <<>>
        next == IF cfg.priorityQueuing THEN Head(S.snapshot) ELSE Head(q1).id
    IN  IF more /\ ActiveCount(S1.micro) < cfg.maxConcurrent
        THEN RunEntry([S1 EXCEPT !.snapshot = IF cfg.priorityQueuing THEN Tail(@) ELSE <<>>],
                      next, send)
        ELSE ProcessQueueEnd(S1, conn, cfg, send)

\* add() from the insertion on: the entry is stored with no further capacity
\* test, 'queue:added' arms the drain timer, and a pass is started if the
\* queue can process.
AddInsert(S, id, conn, cfg, send) ==
    ProcessQueue([S EXCEPT !.queue = Append(@, EntryFor(id, S.req[id])), !.drainArmed = TRUE],
                 conn, cfg, send)

\* queue.add(new Request(...)) called by the holder of the queue.
QueueAdd(opts) ==
    LET id == created + 1
        S0 == [QS EXCEPT !.req[id] = NewRequest(opts)]
    IN  /\ created < MaxAdds
        /\ created' = id
        /\ owned' = owned \cup {id}
        /\ IF QueueFull(queue, qcfg)
           THEN /\ Install(IF qcfg.onFull = "block"
                           THEN [S0 EXCEPT !.waiters = Append(@, id)] ELSE S0)
                /\ last' = IF qcfg.onFull = "drop" THEN Returned(id, "false")
                           ELSE IF qcfg.onFull = "error" THEN Threw(id, "Queue is full")
                           ELSE Quiet
           ELSE /\ \E send \in SendOutcomes : Install(AddInsert(S0, id, connected, qcfg, send))
                /\ last' = Returned(id, "true")
        /\ UNCHANGED <<mgrVars, dispVars, inbound, topicVars, registry, checked, bufVars, qcfg, connected, wsReady>>

\* An add() released by _resolveDrain resumes after its await.
AddResume ==
    /\ micro # <<>>
    /\ Head(micro).k = "add"
    /\ \E send \in SendOutcomes :
          Install(AddInsert([QS EXCEPT !.micro = Tail(@)], Head(micro).id, connected, qcfg, send))
    /\ last' = Returned(Head(micro).id, "true")
    /\ UNCHANGED <<created, owned, mgrVars, dispVars, inbound, topicVars, registry, checked, bufVars, qcfg, connected, wsReady>>

\* The suspended pass of _processQueue resumes.
PassResume ==
    /\ micro # <<>>
    /\ Head(micro).k = "pass"
    /\ \E send \in SendOutcomes : Install(ProcessQueueResume(QS, connected, qcfg, send))
    /\ last' = Emitted(Head(micro).id, "queue:removed")
    /\ UNCHANGED <<created, owned, mgrVars, dispVars, inbound, topicVars, registry, checked, bufVars, qcfg, connected, wsReady>>

\* 'starling:connected' is emitted on a node that was not connected, and
\* _onConnected runs.
OnConnected ==
    /\ ~connected
    /\ connected' = TRUE
    /\ wsReady' = 1
    /\ IF Len(queue) > 0
       THEN \E send \in SendOutcomes : Install(ProcessQueue(QS, TRUE, qcfg, send))
       ELSE Install(QS)
    /\ last' = Quiet
    /\ UNCHANGED <<created, owned, mgrVars, dispVars, inbound, topicVars, registry, checked, bufVars, qcfg>>

\* The transport connects, in a task of its own: no continuation of the queue
\* is waiting.
Connect == micro = <<>> /\ OnConnected

\* 'starling:disconnected' is emitted on a connected node, and
\* _onDisconnected runs.
OnDisconnected ==
    /\ connected
    /\ connected' = FALSE
    /\ wsReady' = 3
    /\ processing' = FALSE
    /\ last' = Quiet
    /\ UNCHANGED <<reqVars, mgrVars, dispVars, inbound, topicVars, registry, checked, bufVars, qcfg, queue, waiters, drainArmed, micro, snapshot>>

\* The transport disconnects, in a task of its own.
Disconnect == micro = <<>> /\ OnDisconnected

\* request.cancel(reason) applied to the requests of a list in turn, up to
\* the first call that throws.
RECURSIVE CancelEach(_, _)
CancelEach(reqs, ids) ==
    IF ids = <<>> THEN [req |-> reqs, threw |-> FALSE, at |-> ForeignId]
    ELSE LET out == ReqCancel(reqs[Head(ids)])
             reqs2 == [reqs EXCEPT ![Head(ids)] = out.r]
         IN  IF out.threw THEN [req |-> reqs2, threw |-> TRUE, at |-> Head(ids)]
             ELSE CancelEach(reqs2, Tail(ids))

\* RequestQueue.clear(reason) called by the holder of the queue: a TypeError
\* from cancel() leaves clear() before the Map is emptied.
QueueClear ==
    LET out == CancelEach(req, EntryIds(queue))
    IN  /\ created > 0
        /\ IF out.threw
           THEN /\ Install([QS EXCEPT !.req = out.req])
                /\ last' = Threw(out.at, TypeErr)
           ELSE /\ Install(ResolveDrain([QS EXCEPT !.req = out.req, !.queue = <<>>]))
                /\ last' = Quiet
        /\ UNCHANGED <<created, owned, mgrVars, dispVars, inbound, topicVars, registry, checked, bufVars, qcfg, connected, wsReady>>

\* RequestsManager.cancelAll(reason), also run by dispose(): every active
\* request is cancelled, then the queue is cleared, then the tables; a
\* TypeError from a cancel() leaves cancelAll at that point.
MgrCancelAll ==
    LET out == CancelEach(req, active)
        qout == CancelEach(out.req, EntryIds(queue))
    IN  IF out.threw \/ qout.threw
        THEN /\ Install([QS EXCEPT !.req = qout.req])
             /\ last' = Threw(IF out.threw THEN out.at ELSE qout.at, TypeErr)
             /\ UNCHANGED <<created, owned, mgrVars, dispVars, inbound, topicVars, registry, checked, bufVars, qcfg, connected, wsReady>>
        ELSE /\ Install(ResolveDrain([QS EXCEPT !.req = qout.req, !.queue = <<>>]))
             /\ active' = <<>>
             /\ expired' = {}
             /\ last' = Emitted(ForeignId, "requests:cancelled")
             /\ UNCHANGED <<created, owned, dispVars, inbound, topicVars, registry, checked, bufVars, qcfg, connected, wsReady>>

\* The transport fails to write a frame it was given: the catch of _send
\* runs; the queue is not told.
SendFailed(id) ==
    /\ micro = <<>>
    /\ id \in Ids
    /\ req[id].sent > 0
    /\ connected
    /\ last' = IF StarlingSend(FALSE).threw # "none" THEN Threw(id, StarlingSend(FALSE).threw)
               ELSE Emitted(id, StarlingSend(FALSE).event)
    /\ UNCHANGED <<reqVars, mgrVars, dispVars, inbound, topicVars, registry, checked, bufVars, queueVars, wsReady>>

\* The loop of the drain monitor's callback over the entries found too old:
\* handleError on each, then delete; a TypeError from handleError (request
\* never executed) leaves the callback before the delete.
RECURSIVE DrainExpire(_, _, _)
DrainExpire(reqs, q, k) ==
    IF k = 0 \/ q = <<>> THEN [req |-> reqs, queue |-> q, threw |-> FALSE]
    ELSE LET id == Head(q).id
             out == ReqHandleError(reqs[id], "QUEUE_DRAIN_TIMEOUT")
             reqs2 == [reqs EXCEPT ![id] = out.r]
         IN  IF out.threw THEN [req |-> reqs2, queue |-> q, threw |-> TRUE]
             ELSE DrainExpire(reqs2, Tail(q), k - 1)

\* The drain monitor's timer fires; the k oldest entries are older than
\* drainTimeout.
DrainTimerFire(k) ==
    /\ micro = <<>>
    /\ drainArmed
    /\ k \in 0..Len(queue)
    /\ drainArmed' = FALSE
    /\ req' = DrainExpire(req, queue, k).req
    /\ queue' = DrainExpire(req, queue, k).queue
    /\ last' = IF DrainExpire(req, queue, k).threw THEN Threw(Head(DrainExpire(req, queue, k).queue).id, TypeErr)
               ELSE Quiet
    /\ UNCHANGED <<created, owned, mgrVars, dispVars, inbound, topicVars, registry, checked, bufVars, qcfg, waiters, connected, wsReady, processing,
                   micro, snapshot>>

\* ------------------------------------------------------------ send buffer
\* BaseStarling._state, from _ws.readyState: a null _ws and the falsy
\* readyState 0 both fall through to 'disconnected'.
StateOf(ready) ==
    IF ready = 1 THEN "connected" ELSE IF ready = 2 THEN "closing" ELSE "disconnected"

\* BaseStarling.isConnected
IsConnected(ready) == StateOf(ready) = "connected"

\* A flush callback that writes a batch last frame first.
FlushBatchesReversed(batches) == [n \in 1..Len(batches) |-> batches[Len(batches) + 1 - n]]

\* The flush callback Buffer gives to MegaBuffer:
\* batches.forEach(content => starling._send(content)); the frames in the
\* order _send is called for them.
FlushBatches(batches) == batches

\* A gate that is always open.
BufferCanProcessAlways(ready) == TRUE

\* The canProcess option Buffer gives to MegaBuffer: () => starling.isConnected
BufferCanProcess(ready) == IsConnected(ready)

\* starling.send(message): the frame is handed to _buffer.add, which appends
\* it to the frames held.
BufferAdd ==
    /\ nadd < MaxFrames
    /\ nadd' = nadd + 1
    /\ buf' = Append(buf, [n |-> nadd + 1, up |-> IsConnected(wsReady)])
    /\ last' = Quiet
    /\ UNCHANGED <<reqVars, mgrVars, dispVars, inbound, topicVars, registry, checked, queueVars, wsReady, wire, epoch>>

\* The buffer releases its n oldest frames as one batch: only if canProcess()
\* allows, and to the flush callback, whose forEach calls _send for each
\* frame in turn; _ws.send throws for the frame at position bad of the batch
\* (for none if bad = 0). An exception of _send ends the forEach. The batch
\* has left the buffer either way.
Flush(n, bad) ==
    LET batch == FlushBatches(SubSeq(buf, 1, n))
        out == StarlingSend(bad = 0)
        accepted == IF bad = 0 THEN batch
                    ELSE IF out.threw # "none" THEN SubSeq(batch, 1, bad - 1)
                    ELSE SubSeq(batch, 1, bad - 1) \o SubSeq(batch, bad + 1, n)
    IN  /\ n \in 1..Len(buf)
        /\ bad \in 0..n
        /\ BufferCanProcess(wsReady)
        /\ wire' = wire \o [k \in 1..Len(accepted) |->
                              [frame |-> accepted[k],
                               epoch |-> epoch,
                               state |-> StateOf(wsReady)]]
        /\ buf' = SubSeq(buf, n + 1, Len(buf))
        /\ last' = IF out.threw # "none" THEN Threw(ForeignId, out.threw)
                   ELSE Emitted(ForeignId, out.event)
        /\ UNCHANGED <<reqVars, mgrVars, dispVars, inbound, topicVars, registry, checked, queueVars, wsReady, epoch, nadd>>

\* A flush all of whose frames the transport accepts.
BufferFlush(n) == Flush(n, 0)

\* The transport gives the node a socket that is still connecting.
TransportOpening ==
    /\ wsReady \in {-1, 3}
    /\ epoch < MaxEpochs
    /\ wsReady' = 0
    /\ connected' = IsConnected(wsReady')
    /\ last' = Quiet
    /\ UNCHANGED <<reqVars, mgrVars, dispVars, inbound, topicVars, registry, checked, qcfg, queue, waiters, processing, drainArmed,
                   micro, snapshot, bufVars>>

\* The socket opens: a connected interval begins.
TransportOpen ==
    /\ wsReady = 0
    /\ wsReady' = 1
    /\ epoch' = epoch + 1
    /\ connected' = IsConnected(wsReady')
    /\ last' = Quiet
    /\ UNCHANGED <<reqVars, mgrVars, dispVars, inbound, topicVars, registry, checked, qcfg, queue, waiters, processing, drainArmed,
                   micro, snapshot, buf, wire, nadd>>

\* The socket starts closing.
TransportClosing ==
    /\ wsReady = 1
    /\ wsReady' = 2
    /\ connected' = IsConnected(wsReady')
    /\ last' = Quiet
    /\ UNCHANGED <<reqVars, mgrVars, dispVars, inbound, topicVars, registry, checked, qcfg, queue, waiters, processing, drainArmed,
                   micro, snapshot, bufVars>>

\* The socket is closed.
TransportClosed ==
    /\ wsReady \in {0, 1, 2}
    /\ wsReady' = 3
    /\ connected' = IsConnected(wsReady')
    /\ last' = Quiet
    /\ subs' = [k \in DOMAIN subs |-> [subs[k] EXCEPT !.cut = @ \/ wsReady # 0]]
    /\ UNCHANGED <<reqVars, mgrVars, dispVars, inbound, matcher, topicRun, registry, checked, qcfg, queue, waiters,
                   processing, drainArmed, micro, snapshot, bufVars>>

\* --------------------------------------------------- inbound raw messages
\* A raw message as the resolver sees it: its format and, for a protocol
\* message, the state of each field the base validation looks at, its type,
\* and the errors the validator of its type returns for it.
ProtocolFrames ==
    [ format    : {"protocol"},
      version   : {"missing", "number", "malformed", "ok"},
      timestamp : {"missing", "invalid", "ok"},
      type      : {"missing", "bogus", "request", "response", "notification",
                   "error", "ack", "ping"},
      peer      : {"absent", "number", "false"},
      oversize  : BOOLEAN,
      body      : {<<>>, <<"Invalid payload">>,
                   <<"Missing required field: requestId", "Missing required field: method">>},
      requestId : {FALSE} ]

\* The protocol messages whose envelope passes the base validation: every
\* value of peer that passes it, with or without a requestId.
ValidFrames ==
    [ format    : {"protocol"},
      version   : {"ok"},
      timestamp : {"ok"},
      type      : {"request", "response", "notification", "error", "ack", "ping"},
      peer      : {"absent", "false", "true", "object"},
      oversize  : {FALSE},
      body      : {<<>>, <<"Invalid payload">>},
      requestId : BOOLEAN ]

OtherFrame(format) ==
    [format |-> format, version |-> "missing", timestamp |-> "missing", type |-> "missing",
     peer |-> "absent", oversize |-> FALSE, body |-> <<>>, requestId |-> FALSE]

RawMessages == ProtocolFrames \cup {OtherFrame(f) : f \in {"json", "text", "binary"}}

\* MessageType.isValid
MessageTypeIsValid(type) ==
    type \in {"request", "response", "notification", "error", "ack", "ping"}

\* ProtocolResolution._validateBase: the violations it adds, in order.
ValidateBase(f) ==
    (IF f.version = "missing" THEN <<"Missing required field: version">>
     ELSE IF f.version = "number" THEN <<"Version must be a string">>
     ELSE IF f.version = "malformed"
          THEN <<"Version must be in semantic version format (x.y.z)">>
     ELSE <<>>)
    \o (IF f.timestamp = "missing" THEN <<"Missing required field: timestamp">>
        ELSE IF f.timestamp = "invalid" THEN <<"Invalid timestamp format">>
        ELSE <<>>)
    \o (IF f.type = "missing" THEN <<"Missing required field: type">>
        ELSE IF ~MessageTypeIsValid(f.type) THEN <<"Invalid type">>
        ELSE <<>>)
    \o (IF f.peer = "number" THEN <<"Peer must be a boolean or free object">> ELSE <<>>)
    \o (IF f.oversize THEN <<"Message size exceeds maximum allowed size">> ELSE <<>>)

\* ProtocolResolution._validateType (strict): the violations it adds.
ValidateType(f) ==
    IF f.type \in {"request", "response", "notification", "error", "ack"}
    THEN f.body
    ELSE <<"Unsupported message type: " \o f.type>>

\* ProtocolResolution after its constructor: _violations and _resolvedType.
Resolve(f) ==
    LET base == IF f.format = "protocol" THEN ValidateBase(f) ELSE <<>>
        all == IF f.format = "protocol" /\ base = <<>> THEN ValidateType(f) ELSE base
    IN  [ format       |-> f.format,
          violations   |-> all,
          resolvedType |-> IF f.format = "protocol" /\ all = <<>> THEN f.type ELSE "null" ]

\* ProtocolResolution.isValid
IsValid(res) == res.format = "protocol" /\ Len(res.violations) = 0

\* A violation test that holds of every protocol message.
OnViolationProtocol(res) == res.format = "protocol"

\* A violation test that lets a single violation pass.
OnViolationSeveral(res) == Len(res.violations) > 1

\* ProtocolResolution.onViolation: whether it calls its handler.
OnViolation(res) == Len(res.violations) > 0

\* createProtocolError(code, message, {violations})
ProtocolError(code, violations) ==
    [type |-> "error", severity |-> "protocol", code |-> code,
     message |-> "Message processing failed", violations |-> violations]

\* The sub-handler handleMessage hands a valid protocol message to: the
\* chain registers onRequest, onResponse, onNotification and onErrorMessage.
RoutedTo(res) ==
    IF IsValid(res) /\ res.resolvedType \in {"request", "response", "notification", "error"}
    THEN res.resolvedType ELSE "none"

\* createApplicationError(code, message)
ApplicationError(code) ==
    [type |-> "error", severity |-> "application", code |-> code,
     message |-> "Internal error handling message", violations |-> <<>>]

\* validateErrorMessage applied to the error object e of an error frame whose
\* envelope is well formed: the errors it returns for error.code and
\* error.message (error.details, when present, is an object of a few short
\* strings).
ValidateErrorMessage(e) ==
    (IF e.code = "" THEN <<"error.code cannot be empty">> ELSE <<>>)
    \o (IF e.message = "" THEN <<"error.message cannot be empty">> ELSE <<>>)

\* The raw message the other node receives when error frame e is written:
\* the envelope of createBaseMessage() without options (current version,
\* Date.now(), no peer field) around e.
OnTheWire(e) ==
    [format |-> "protocol", version |-> "ok", timestamp |-> "ok", type |-> e.type,
     peer |-> "absent", oversize |-> FALSE, body |-> ValidateErrorMessage(e), requestId |-> FALSE]

\* The node a raw message arrives at: whether handleNotification finds a
\* topics manager on it (_helios._topics or _topics), and its network node:
\* none, one with the default empty proxyConfiguration, or one with the four
\* proxy callables.
Nodes == [topics : BOOLEAN, proxy : {"none", "empty", "hooks"}]

\* A BaseStarling as its constructor leaves it: no network node, and neither
\* _helios nor _topics.
PlainNode == [topics |-> FALSE, proxy |-> "none"]

\* A peer test that takes every peer field that is present as set.
ContextPeerPresent(f) == f.peer # "absent"

\* context.peer of the context a callback of handleMessage builds:
\* (message.peer || null) || false.
ContextPeer(f) == f.peer \in {"true", "object"}

\* What the callback handleMessage registered for a valid message of type
\* kind does on node n: the sub-handler it calls (routed), the proxy callable
\* it calls (proxied), the manager handleNotification hands the notification
\* to (dest), and whether something was thrown: "caught" by the try of
\* handleMessage, or a "rejection" of the promise of an async callback or of
\* the un-awaited handleNotification, which nothing handles.
Callback(f, kind, n) ==
    IF kind = "none"
    THEN [routed |-> "none", proxied |-> "none", dest |-> "none", thrown |-> "none"]
    ELSE IF ContextPeer(f)
    THEN [ routed  |-> "none",
           proxied |-> IF n.proxy = "hooks" THEN kind ELSE "none",
           dest    |-> "none",
           thrown  |-> IF n.proxy # "empty" THEN "none"
                       ELSE IF kind = "error" THEN "caught" ELSE "rejection" ]
    ELSE [ routed  |-> kind,
           proxied |-> "none",
           dest    |-> IF kind # "notification" \/ ~n.topics THEN "none"
                       ELSE IF f.requestId THEN "requests" ELSE "topics",
           thrown  |-> IF kind = "notification" /\ ~n.topics THEN "rejection" ELSE "none" ]

\* handleMessage: the events it emits, the frames it gives to starling.send
\* and what the callback of the message's type does, for raw message f on
\* node n.
HandleMessage(f, n) ==
    LET res == Resolve(f)
        cb  == Callback(f, RoutedTo(res), n)
    IN  [ frame   |-> f,
          node    |-> n,
          routed  |-> cb.routed,
          proxied |-> cb.proxied,
          dest    |-> cb.dest,
          thrown  |-> cb.thrown,
          events  |-> (IF res.format \in {"text", "json", "binary"}
                       THEN <<[name |-> "message:" \o res.format, violations |-> <<>>]>>
                       ELSE <<>>)
                      \o (IF OnViolation(res)
                          THEN <<[name |-> "message:protocol_error",
                                  violations |-> res.violations]>>
                          ELSE <<>>)
                      \o (IF cb.thrown = "caught"
                          THEN <<[name |-> "message:internal_error", violations |-> <<>>]>>
                          ELSE <<>>),
          sent    |-> IF OnViolation(res)
                      THEN <<ProtocolError("PROTOCOL_VIOLATION", res.violations)>>
                      ELSE IF cb.thrown = "caught"
                      THEN <<ApplicationError("INTERNAL_ERROR")>>
                      ELSE <<>> ]

\* No raw message has been delivered yet.
NoMessage ==
    [frame |-> OtherFrame("none"), node |-> PlainNode, routed |-> "none", proxied |-> "none",
     dest |-> "none", thrown |-> "none", events |-> <<>>, sent |-> <<>>]

\* The transport delivers raw message f to node n: starling.handleMessage(f).
Deliver(f, n) ==
    /\ inbound' = HandleMessage(f, n)
    /\ last' = Quiet
    /\ UNCHANGED <<reqVars, mgrVars, dispVars, queueVars, wsReady, bufVars, topicVars, registry, checked>>

\* ---------------------------------------------------------------- topics
\* Segments a topic is made of (Patterns.TOPIC_NAME: a letter, then letters,
\* digits and underscores), as sequences of characters.
SegNames == {<<"a">>, <<"a", "b">>, <<"b">>}

\* The topics (over segs = SegNames) and the patterns (over SegNames and
\* the wildcard), as sequences of segments.
SegLists(segs) == UNION {[1..k -> segs] : k \in 1..MaxSegs}

\* The string of a sequence of segments: the segments joined by ":".
RECURSIVE Join(_)
Join(segs) ==
    IF Len(segs) = 1 THEN segs[1] ELSE segs[1] \o <<":">> \o Join(Tail(segs))

\* A matcher whose wildcard stands for any run of characters.
RECURSIVE RegexTestAny(_, _)
RegexTestAny(p, t) ==
    IF p = <<>> THEN t = <<>>
    ELSE IF Head(p) = "*"
    THEN \E k \in 1..Len(t) : RegexTestAny(Tail(p), SubSeq(t, k + 1, Len(t)))
    ELSE t # <<>> /\ Head(t) = Head(p) /\ RegexTestAny(Tail(p), Tail(t))

\* new RegExp('^' + pattern.replace(/\*/g, '[^:]+') + '$').test(topic): every
\* "*" of the pattern stands for one or more characters other than ":",
\* every other character for itself.
RECURSIVE RegexTest(_, _)
RegexTest(p, t) ==
    IF p = <<>> THEN t = <<>>
    ELSE IF Head(p) = "*"
    THEN \E k \in 1..Len(t) :
            /\ \A j \in 1..k : t[j] # ":"
            /\ RegexTest(Tail(p), SubSeq(t, k + 1, Len(t)))
    ELSE t # <<>> /\ Head(t) = Head(p) /\ RegexTest(Tail(p), Tail(t))

\* NotificationUtils.createTopicMatcher(pattern)
CreateTopicMatcher(pattern) ==
    /\ matcher' = [pattern |-> pattern, topic |-> <<>>, result |-> "unset"]
    /\ UNCHANGED <<reqVars, mgrVars, dispVars, queueVars, wsReady, bufVars, inbound, last,
                   subs, topicRun, registry, checked>>

\* The matcher created last is called with a topic.
MatchTopic(topic) ==
    /\ matcher.pattern # <<>>
    /\ matcher' = [matcher EXCEPT !.topic = topic,
                                  !.result = IF RegexTest(Join(matcher.pattern), Join(topic))
                                             THEN "accept" ELSE "reject"]
    /\ UNCHANGED <<reqVars, mgrVars, dispVars, queueVars, wsReady, bufVars, inbound, last,
                   subs, topicRun, registry, checked>>

\* The patterns subscriptions are made with and the topics notifications
\* carry.
SubPatterns == {<< <<"a">>, <<"*">> >>, << <<"a">>, <<"b">> >>}
NotifTopics == {<< <<"a">>, <<"b">> >>, << <<"b">>, <<"b">> >>}

\* A wrapper that lets the handler's error through.
WrappedHandlerUncaught(sub) == [error |-> FALSE, rejects |-> sub.fails]

\* wrappedHandler of subscribe(): it awaits the handler inside a try whose
\* catch emits topic:error, so its own promise never rejects.
WrappedHandler(sub) == [error |-> sub.fails, rejects |-> FALSE]

\* Events.emit(name, data) over the listeners ls: the listeners whose pattern
\* matches name, by descending priority and then in registration order
\* (Priorities = {0, 1}), each awaited in turn; a listener that rejects ends
\* the dispatch.
RECURSIVE AwaitEach(_, _)
AwaitEach(order, ls) ==
    IF order = <<>> THEN <<>>
    ELSE IF WrappedHandler(ls[Head(order)]).rejects THEN <<Head(order)>>
    ELSE <<Head(order)>> \o AwaitEach(Tail(order), ls)

EventsEmit(ls, name) ==
    LET ByPriority(p) ==
            SelectSeq([k \in 1..Len(ls) |-> k],
                      LAMBDA k : /\ ls[k].priority = p
                                 /\ RegexTest(Join(ls[k].pattern), Join(name)))
    IN  AwaitEach(ByPriority(1) \o ByPriority(0), ls)

\* TopicsManager.subscribe(topic, handler, {persistent, priority}); fails
\* says whether the handler throws or rejects, cut that the connection was
\* lost since (a record of the run, read by no code).
Subscribe(pattern, persistent, priority, fails) ==
    /\ Len(subs) < MaxSubs
    /\ subs' = Append(subs, [pattern |-> pattern, persistent |-> persistent,
                             priority |-> priority, fails |-> fails, cut |-> FALSE])
    /\ UNCHANGED <<reqVars, mgrVars, dispVars, queueVars, wsReady, bufVars, inbound, last,
                   matcher, topicRun, registry, checked>>

\* TopicsManager.handleNotification(starling, context) for a notification
\* of the given topic: the subscriptions invoked, in order, and those whose
\* wrapper emitted topic:error.
TopicsHandleNotification(topic) ==
    /\ topicRun' =
          LET invoked == EventsEmit(subs, topic)
          IN  [ topic   |-> topic,
                invoked |-> invoked,
                errors  |-> SelectSeq(invoked, LAMBDA k : WrappedHandler(subs[k]).error) ]
    /\ UNCHANGED <<reqVars, mgrVars, dispVars, queueVars, wsReady, bufVars, inbound, last,
                   matcher, subs, registry, checked>>

\* ------------------------------------------------------ message validators
\* validateBaseMessage(message) for an object message: each field is absent
\* (has.f = FALSE) or has one of the values below, the type as a sequence of
\* characters. validTypes is MessageType.values().join(', '), a string, and
\* validTypes.includes(type) asks whether type occurs in it as a substring;
\* when it does not, building the error text calls validTypes.join, which a
\* string does not have, and the call throws.
ValidateBaseMessage(m) ==
    LET validTypes ==
            <<"r", "e", "q", "u", "e", "s", "t", ",", " ",
              "r", "e", "s", "p", "o", "n", "s", "e", ",", " ",
              "n", "o", "t", "i", "f", "i", "c", "a", "t", "i", "o", "n", ",", " ",
              "e", "r", "r", "o", "r", ",", " ", "a", "c", "k", ",", " ", "p", "i", "n", "g">>
        Includes(x) ==
            \E i \in 0..(Len(validTypes) - Len(x)) : SubSeq(validTypes, i + 1, i + Len(x)) = x
        errors ==
            (IF ~m.has.protocol THEN <<"Missing required field: protocol">>
             ELSE IF m.protocol # "helios-starling"
                  THEN <<"Invalid protocol: must be \"helios-starling\"">>
             ELSE <<>>)
            \o (IF ~m.has.version THEN <<"Missing required field: version">>
                ELSE IF m.version = "number" THEN <<"Version must be a string">>
                ELSE IF m.version = "malformed"
                     THEN <<"Version must be in semantic version format (x.y.z)">>
                ELSE <<>>)
            \o (IF ~m.has.timestamp THEN <<"Missing required field: timestamp">>
                ELSE IF m.timestamp \in {"string", "fraction"}
                     THEN <<"Timestamp must be an integer">>
                ELSE IF m.timestamp = "negative" THEN <<"Timestamp must be a positive number">>
                ELSE <<>>)
            \o (IF ~m.has.type THEN <<"Missing required field: type">> ELSE <<>>)
    IN  IF m.has.type /\ ~Includes(m.type)
        THEN [valid |-> FALSE, errors |-> <<>>, threw |-> TRUE]
        ELSE [valid |-> errors = <<>>, errors |-> errors, threw |-> FALSE]

\* The run's one call of the validator, on message m.
Validate(m) ==
    /\ ~checked.done
    /\ checked' = [done |-> TRUE, message |-> m, outcome |-> ValidateBaseMessage(m)]
    /\ UNCHANGED <<reqVars, mgrVars, dispVars, queueVars, wsReady, bufVars, inbound, last,
                   topicVars, registry>>

\* ------------------------------------------------------- methods registry
\* A reserved list that names one namespace only.
ReservedNamespacesFew == {"system"}

\* ReservedNamespaces
ReservedNamespaces == {"system", "internal", "stream", "helios"}

\* The method names register is called with, as sequences of segments:
\* user:get, system:ping, stream:open and echo.
RegistryNames == {<<"user", "get">>, <<"system", "ping">>, <<"stream", "open">>, <<"echo">>}

\* validateMethodName(name).errors: the format (Patterns.METHOD_NAME wants a
\* colon) and the namespace, the text before the first colon.
ValidateMethodName(name) ==
    (IF Len(name) < 2 THEN <<"Invalid method name format. Must be namespace:action">>
     ELSE <<>>)
    \o (IF Head(name) \in ReservedNamespaces THEN <<"Namespace is reserved">> ELSE <<>>)

\* MethodsManager.register(name, handler, {internal}): _validateMethodName
\* unless internal, then _methods.set and method:registered.
Register(name, handler, internal) ==
    /\ IF ~internal /\ ValidateMethodName(name) # <<>>
       THEN last' = Threw(ForeignId, "Invalid method name") /\ UNCHANGED registry
       ELSE IF ~internal /\ registry[name] # "none"
       THEN last' = Threw(ForeignId, "Method already exists") /\ UNCHANGED registry
       ELSE IF ~internal /\ Head(name) \in ReservedNamespaces
       THEN last' = Threw(ForeignId, "Namespace is reserved") /\ UNCHANGED registry
       ELSE /\ registry' = [registry EXCEPT ![name] = handler]
            /\ last' = Emitted(ForeignId, "method:registered")
    /\ UNCHANGED <<reqVars, mgrVars, dispVars, queueVars, wsReady, bufVars, inbound, topicVars, checked>>

\* MethodsManager.unregister(name)
Unregister(name) ==
    /\ registry' = [registry EXCEPT ![name] = "none"]
    /\ last' = IF registry[name] # "none" THEN Emitted(ForeignId, "method:unregistered")
               ELSE Quiet
    /\ UNCHANGED <<reqVars, mgrVars, dispVars, queueVars, wsReady, bufVars, inbound, topicVars, checked>>

\* ------------------------------------------------- inbound request dispatch
\* CommonErrors used by the dispatcher.
METHOD_NOT_FOUND == "METHOD_NOT_FOUND"
METHOD_ERROR == "METHOD_ERROR"
REQUEST_TIMEOUT == "REQUEST_TIMEOUT"
INTERNAL_ERROR == "INTERNAL_ERROR"

\* Method constructor: the defaults, overridden by the options given.
MethodDefaults == [timeout |-> 5000, internal |-> FALSE, validator |-> "null"]
NewMethod(name, options) == [name |-> name, _options |-> options @@ MethodDefaults]

\* The registry after the application's setup: slow:op was registered with
\* {timeout: 50}, echo with no options; no other name is registered.
NoOptions == [k \in {} |-> 0]
Registered == {"slow:op", "echo"}
RegisteredOptions(name) == IF name = "slow:op" THEN [timeout |-> 50] ELSE NoOptions
MethodsGet(name) == NewMethod(name, RegisteredOptions(name))
MethodNames == Registered \cup {"nope"}

\* The expression  method?.options?.timeout || 30000  of handleRequest.
DispatchTimeout(method) ==
    IF "options" \in DOMAIN method /\ "timeout" \in DOMAIN method["options"]
          /\ method["options"]["timeout"] # 0
    THEN method["options"]["timeout"]
    ELSE 30000

\* createSuccessResponse / createErrorResponse: the response frame.
SuccessFrame(data) ==
    [success |-> TRUE, data |-> data, code |-> "none", message |-> "none",
     details |-> "undefined"]
ErrorFrame(code, message, details) ==
    [success |-> FALSE, data |-> "undefined", code |-> code, message |-> message,
     details |-> IF details = "null" THEN "undefined" ELSE details]

\* A RequestContext right after its constructor, with the bookkeeping of its
\* dispatch: the handler's progress, the dispatcher's timer, the frames the
\* context handed to starling.send, the number of notifications it handed to
\* starling.notify, and the usage errors it raised.
NewContext(method) ==
    [ st |-> "live", method |-> method, processed |-> FALSE, frames |-> <<>>,
      usage |-> 0, handler |-> "none", timer |-> FALSE, delay |-> 0, replies |-> 0,
      notes |-> 0 ]
NoContext == [NewContext("none") EXCEPT !.st = "none"]

\* A reply path that does not consult the processed bit.
CtxReplyUnguarded(x, frame) ==
    [x EXCEPT !.processed = TRUE, !.frames = Append(@, frame)]

\* RequestContext._success and RequestContext.error: throw when the context
\* is processed, otherwise mark it processed and send the frame.
CtxReply(x, frame) ==
    IF x.processed THEN [x EXCEPT !.usage = @ + 1]
    ELSE [x EXCEPT !.processed = TRUE, !.frames = Append(@, frame)]

CtxSuccess(x, data) == CtxReply(x, SuccessFrame(data))

\* A notify that does not consult the processed bit.
CtxNotifyUnguarded(x) == [x EXCEPT !.notes = @ + 1]

\* RequestContext.notify, which warn and progress call: throw when the
\* context is processed, otherwise hand a notification carrying the
\* requestId to starling.notify.
CtxNotify(x) ==
    IF x.processed THEN [x EXCEPT !.usage = @ + 1]
    ELSE [x EXCEPT !.notes = @ + 1]

CtxError(x, code, message, details) ==
    CtxReply(x, ErrorFrame(IF Falsy(code) THEN INTERNAL_ERROR ELSE code, message, details))

\* handleRequestError: the reply built from whatever reached the catch.
HandleRequestError(x, code, message, details) ==
    CtxError(x, IF Falsy(code) THEN METHOD_ERROR ELSE code,
                IF Falsy(message) THEN "Method execution failed" ELSE message,
                details)

\* Values a handler may throw: an object with code, message and details; the
\* same without details; an Error (message only); a value with neither; an
\* object whose message is the empty string; null or undefined.
ThrownVals ==
    { [nullish |-> FALSE, code |-> "E_APP", message |-> "denied", details |-> "obj"],
      [nullish |-> FALSE, code |-> "E_APP", message |-> "denied", details |-> "undefined"],
      [nullish |-> FALSE, code |-> "undefined", message |-> "boom", details |-> "undefined"],
      [nullish |-> FALSE, code |-> "undefined", message |-> "undefined", details |-> "undefined"],
      [nullish |-> FALSE, code |-> "E_APP", message |-> "''", details |-> "undefined"],
      [nullish |-> TRUE, code |-> "undefined", message |-> "undefined", details |-> "undefined"] }

\* The message of the TypeError raised by reading a property of null.
NullReadMessage == "Cannot read properties of null (reading 'code')"

\* A catch block that reports every thrown value as METHOD_ERROR.
MethodCatchFlat(x, v) ==
    CtxError(x, METHOD_ERROR,
             IF Falsy(v.message) THEN "Method execution failed" ELSE v.message, "thrown")

\* The catch block of Method.execute, then the catch block of handleRequest
\* when the former threw.  Reading error.code of null or undefined is a
\* TypeError that leaves Method.execute and reaches handleRequest's catch.
MethodCatch(x, v) ==
    IF v.nullish
    THEN IF x.processed THEN x
         ELSE HandleRequestError(x, "undefined", NullReadMessage, "undefined")
    ELSE IF ~Falsy(v.code) /\ ~Falsy(v.message)
         THEN CtxError(x, v.code, v.message, v.details)
         ELSE CtxError(x, METHOD_ERROR,
                       IF Falsy(v.message) THEN "Method execution failed" ELSE v.message,
                       "thrown")

\* Method.execute after the handler returned: the reply of last resort.
MethodAfterHandler(x) ==
    IF x.processed THEN x
    ELSE CtxError(x, METHOD_ERROR, "Method handler did not provide a response", "undefined")

\* The text of the timeout reply.
TimeoutMessage(delay) == "Method execution timed out after " \o ToString(delay) \o "ms"

\* An inbound request frame with peer = false: handleMessage.onRequest builds
\* the context and handleRequest looks the method up; an unknown method is
\* answered at once, otherwise the handler is started and the timer armed.
InboundRequest(name) ==
    /\ nctx < MaxCtx
    /\ nctx' = nctx + 1
    /\ ctx' = [ctx EXCEPT ![nctx + 1] =
                 IF name \notin Registered
                 THEN HandleRequestError(NewContext(name), METHOD_NOT_FOUND,
                                         "Method " \o name \o " not found", "undefined")
                 ELSE [NewContext(name) EXCEPT !.handler = "running", !.timer = TRUE,
                                               !.delay = DispatchTimeout(MethodsGet(name))]]
    /\ UNCHANGED <<reqVars, mgrVars, inbound, topicVars, registry, checked, last, queueVars, wsReady, bufVars>>

\* The handler (or a callback it left behind) calls context.success(data).
HandlerSuccess(c, data) ==
    /\ ctx[c].handler # "none"
    /\ ctx[c].replies < MaxReplies
    /\ ctx' = [ctx EXCEPT ![c] = [CtxSuccess(@, data) EXCEPT !.replies = @ + 1]]
    /\ UNCHANGED <<reqVars, mgrVars, inbound, topicVars, registry, checked, last, nctx, queueVars, wsReady, bufVars>>

\* The handler (or a callback it left behind) calls context.notify, warn or
\* progress.
HandlerNotify(c) ==
    /\ ctx[c].handler # "none"
    /\ ctx[c].notes + ctx[c].usage < MaxReplies
    /\ ctx' = [ctx EXCEPT ![c] = CtxNotify(@)]
    /\ UNCHANGED <<reqVars, mgrVars, inbound, topicVars, registry, checked, last, nctx, queueVars, wsReady, bufVars>>

\* The handler (or a callback it left behind) calls context.error(...).
HandlerError(c) ==
    /\ ctx[c].handler # "none"
    /\ ctx[c].replies < MaxReplies
    /\ ctx' = [ctx EXCEPT ![c] =
                 [CtxError(@, "E_APP", "denied", "undefined") EXCEPT !.replies = @ + 1]]
    /\ UNCHANGED <<reqVars, mgrVars, inbound, topicVars, registry, checked, last, nctx, queueVars, wsReady, bufVars>>

\* The handler's promise resolves: Method.execute replies if nobody did, the
\* race settles and its finally clears the timer.
HandlerReturn(c) ==
    /\ ctx[c].handler = "running"
    /\ ctx' = [ctx EXCEPT ![c] =
                 [MethodAfterHandler(@) EXCEPT !.handler = "returned", !.timer = FALSE]]
    /\ UNCHANGED <<reqVars, mgrVars, inbound, topicVars, registry, checked, last, nctx, queueVars, wsReady, bufVars>>

\* The handler throws v (or its promise rejects with v).
HandlerThrow(c, v) ==
    /\ ctx[c].handler = "running"
    /\ ctx' = [ctx EXCEPT ![c] =
                 [MethodCatch(@, v) EXCEPT !.handler = "threw", !.timer = FALSE]]
    /\ UNCHANGED <<reqVars, mgrVars, inbound, topicVars, registry, checked, last, nctx, queueVars, wsReady, bufVars>>

\* The dispatcher's timer fires: it replies REQUEST_TIMEOUT unless the context
\* is processed, and rejects the race; the handler keeps running.
DispatchTimerFire(c) ==
    /\ ctx[c].timer
    /\ ctx' = [ctx EXCEPT ![c] =
                 [(IF @.processed THEN @
                   ELSE CtxError(@, REQUEST_TIMEOUT, TimeoutMessage(@.delay), "undefined"))
                  EXCEPT !.timer = FALSE]]
    /\ UNCHANGED <<reqVars, mgrVars, inbound, topicVars, registry, checked, last, nctx, queueVars, wsReady, bufVars>>

Ctxs == 1..MaxCtx

\* The node after construction, its queue options left open.
InitNode ==
    /\ req = [i \in Ids |-> NoRequest]
    /\ created = 0
    /\ owned = {}
    /\ active = <<>>
    /\ expired = {}
    /\ last = Quiet
    /\ ctx = [c \in Ctxs |-> NoContext]
    /\ nctx = 0
    /\ queue = <<>>
    /\ waiters = <<>>
    /\ connected = FALSE
    /\ processing = FALSE
    /\ drainArmed = FALSE
    /\ micro = <<>>
    /\ snapshot = <<>>
    /\ wsReady = -1
    /\ buf = <<>>
    /\ wire = <<>>
    /\ epoch = 0
    /\ nadd = 0
    /\ inbound = NoMessage
    /\ matcher = [pattern |-> <<>>, topic |-> <<>>, result |-> "unset"]
    /\ subs = <<>>
    /\ topicRun = [topic |-> <<>>, invoked |-> <<>>, errors |-> <<>>]
    /\ registry = [n \in RegistryNames |-> "none"]
    /\ checked = [done |-> FALSE]

\* A node whose queue keeps the constructor's full policy (block).
Init == InitNode /\ qcfg \in {c \in QueueConfigs : c.onFull = "block"}

\* A node whose queue was given any of the three full policies.
InitQueue == InitNode /\ qcfg \in QueueConfigs

\* A node whose queue is large and either serial or priority ordered.
InitScheduler == InitNode /\ qcfg \in {SerialConfig, PriorityConfig}

NotifTypes == {"progress", "undefined"}

\* The Request object driven through its public methods by its holder.
NextRequest ==
    \/ \E o \in ReqOptions : AppNewRequest(o)
    \/ \E i \in Ids : AppExecute(i)
    \/ \E i \in Ids : AppCancel(i)
    \/ \E i \in Ids, d \in DataVals : AppHandleResponse(i, d)
    \/ \E i \in Ids : AppHandleError(i, "QUEUE_DRAIN_TIMEOUT")
    \/ \E i \in Ids, t \in NotifTypes : AppHandleNotification(i, t)
    \/ \E i \in Ids : TimeoutFire(i)

SpecRequest == Init /\ [][NextRequest]_vars

\* The node: requests issued through the manager or executed directly, and
\* the inbound responses and correlated notifications routed by the manager.
Next ==
    \/ \E o \in ReqOptions : AppNewRequest(o)
    \/ \E o \in ReqOptions : MgrExecute(o)
    \/ \E i \in Ids : AppExecute(i)
    \/ \E i \in Ids : TimeoutFire(i)
    \/ \E i \in Ids \cup {ForeignId}, ok \in BOOLEAN, d \in DataVals :
          MgrHandleResponse(i, ok, d)
    \/ \E i \in Ids, t \in NotifTypes : MgrHandleNotification(i, t)
    \/ MgrCancelAll

Spec == Init /\ [][Next]_vars

\* The queue driven by its holder, the transport and the timers.
NextQueue ==
    \/ \E o \in ReqOptions : QueueAdd(o)
    \/ AddResume
    \/ PassResume
    \/ Connect
    \/ Disconnect
    \/ \E k \in 0..MaxAdds : DrainTimerFire(k)
    \/ \E i \in Ids : TimeoutFire(i)

SpecQueue == InitQueue /\ [][NextQueue]_vars

\* A blocking queue with room for more than MaxSize entries, and the same
\* steps; the continuations in the microtask queue are always run.
InitBlocking ==
    /\ InitNode
    /\ qcfg = [maxSize |-> MaxSize + 1, onFull |-> "block", maxConcurrent |-> 10, priorityQueuing |-> FALSE]

SpecBlocking ==
    /\ InitBlocking
    /\ [][NextQueue]_vars
    /\ WF_vars(AddResume)
    /\ WF_vars(PassResume)

\* The scheduler of a large queue: its holder adds, cancels and clears, the
\* transport connects, disconnects and fails to write.
NextScheduler ==
    \/ \E o \in PriorityOptions : QueueAdd(o)
    \/ PassResume
    \/ Connect
    \/ Disconnect
    \/ \E i \in Ids : AppCancel(i)
    \/ QueueClear
    \/ \E i \in Ids : SendFailed(i)
    \/ \E i \in Ids : TimeoutFire(i)

SpecScheduler == InitScheduler /\ [][NextScheduler]_vars

\* The scheduler of a large first-in first-out queue on a link whose events
\* are emitted at any point between two steps of the queue, also while a pass
\* is suspended at its await (events.emit is synchronous and runs the queue's
\* listeners in the emitter's turn).
NextLink ==
    \/ QueueAdd([timeout |-> 50, noResponse |-> FALSE])
    \/ PassResume
    \/ OnConnected
    \/ OnDisconnected

InitLink == InitNode /\ qcfg = [PriorityConfig EXCEPT !.priorityQueuing = FALSE]

SpecLink == InitLink /\ [][NextLink]_vars

\* The send buffer between starling.send and the transport.
NextBuffer ==
    \/ BufferAdd
    \/ \E n \in 1..MaxFrames : BufferFlush(n)
    \/ TransportOpening
    \/ TransportOpen
    \/ TransportClosing
    \/ TransportClosed

SpecBuffer == Init /\ [][NextBuffer]_vars

\* The send buffer over a transport that may refuse a frame.
NextSend ==
    \/ BufferAdd
    \/ \E n \in 1..MaxFrames, bad \in 0..MaxFrames : Flush(n, bad)
    \/ TransportOpening
    \/ TransportOpen
    \/ TransportClosing
    \/ TransportClosed

SpecSend == Init /\ [][NextSend]_vars

\* The raw messages the transport delivers.
NextInbound == \E f \in RawMessages : Deliver(f, PlainNode)

SpecInbound == Init /\ [][NextInbound]_vars

\* Valid envelopes delivered to every kind of node.
NextRouting == \E f \in ValidFrames, n \in Nodes : Deliver(f, n)

SpecRouting == Init /\ [][NextRouting]_vars

\* Topic matchers created from patterns and applied to topics.
NextMatcher ==
    \/ \E p \in SegLists(SegNames \cup {<<"*">>}) : CreateTopicMatcher(p)
    \/ \E t \in SegLists(SegNames) : MatchTopic(t)

SpecMatcher == Init /\ [][NextMatcher]_vars

\* Well-formed base messages and the messages got from them by removing or
\* corrupting fields, given to validateBaseMessage.
SpecValidate ==
    Init /\ [][\E m \in [ has       : [{"protocol", "version", "timestamp", "type"} -> BOOLEAN],
                          protocol  : {"helios-starling", "other"},
                          version   : {"1.0.0", "number", "malformed"},
                          timestamp : {"now", "string", "fraction", "negative"},
                          type      : { <<"r", "e", "q", "u", "e", "s", "t">>,
                                        <<"p", "i", "n", "g">>,
                                        <<"r", "e", "q">>,
                                        <<>>,
                                        <<"b", "o", "g", "u", "s">> } ] : Validate(m)]_vars

\* The methods registry: registrations by the application and by the node.
NextRegistry ==
    \/ \E n \in RegistryNames, h \in {"h1", "h2"}, internal \in BOOLEAN : Register(n, h, internal)
    \/ \E n \in RegistryNames : Unregister(n)

SpecRegistry == Init /\ [][NextRegistry]_vars

\* The topics registry: subscriptions and inbound notifications.
NextTopics ==
    \/ \E p \in SubPatterns, persistent \in BOOLEAN, prio \in Priorities, fails \in BOOLEAN :
          Subscribe(p, persistent, prio, fails)
    \/ \E t \in NotifTopics : TopicsHandleNotification(t)

SpecTopics == Init /\ [][NextTopics]_vars

\* The topics registry of a node whose connection comes and goes.
NextTopicsLink ==
    \/ NextTopics
    \/ TransportOpening
    \/ TransportOpen
    \/ TransportClosing
    \/ TransportClosed

SpecTopicsLink == Init /\ [][NextTopicsLink]_vars

\* The inbound side: request frames, what handlers do, the dispatcher's timer.
NextDispatch ==
    \/ \E m \in MethodNames : InboundRequest(m)
    \/ \E c \in Ctxs, d \in {"obj", "0"} : HandlerSuccess(c, d)
    \/ \E c \in Ctxs : HandlerError(c)
    \/ \E c \in Ctxs : HandlerReturn(c)
    \/ \E c \in Ctxs, v \in ThrownVals : HandlerThrow(c, v)
    \/ \E c \in Ctxs : DispatchTimerFire(c)

SpecDispatch == Init /\ [][NextDispatch]_vars

\* The inbound side with handlers that stream notifications before and after
\* they reply.
NextStreaming ==
    \/ \E m \in MethodNames : InboundRequest(m)
    \/ \E c \in Ctxs : HandlerSuccess(c, "obj")
    \/ \E c \in Ctxs : HandlerNotify(c)
    \/ \E c \in Ctxs : HandlerReturn(c)
    \/ \E c \in Ctxs : DispatchTimerFire(c)

SpecStreaming == Init /\ [][NextStreaming]_vars

\* Timers that are armed eventually fire.
SpecDispatchLive == SpecDispatch /\ \A c \in Ctxs : WF_vars(DispatchTimerFire(c))

\* Timers that are armed eventually fire.
SpecLive == Spec /\ \A i \in Ids : WF_vars(TimeoutFire(i))


\* ------------------------------------------------------------ notifications
\* createNotification(data, topic = undefined, options = {}): the envelope,
\* with requestId only if options.requestId !== undefined and
\* notification.topic only if topic !== undefined ("undefined" stands for an
\* absent field).
CreateNotification(data, topic, options) ==
    [type         |-> "notification",
     requestId    |-> options.requestId,
     notification |-> [topic |-> topic, data |-> data]]

\* BaseStarling.notify(topic, data = null, requestId = null, options = {}):
\* this.send(createNotification(topic, data, { requestId }, options)).
StarlingNotify(topic, data, requestId) ==
    CreateNotification(topic,
                       IF data = "undefined" THEN "null" ELSE data,
                       [requestId |-> IF requestId = "undefined" THEN "null" ELSE requestId])

\* RequestContext.notify(topic, data = {}) of an unprocessed context of
\* request requestId: this._starling.notify(topic, data, this._requestId, ...).
ContextNotify(topic, data, requestId) ==
    StarlingNotify(topic, IF data = "undefined" THEN "{}" ELSE data, requestId)

\* notify is called, on the node (by = "starling") or on a request context
\* (by = "context"), and the envelope it hands to send() is kept.
Notify(by, topic, data, requestId) ==
    /\ ~checked.done
    /\ checked' = [done |-> TRUE, by |-> by, topic |-> topic, data |-> data, requestId |-> requestId,
                   outcome |-> IF by = "context" THEN ContextNotify(topic, data, requestId)
                                                 ELSE StarlingNotify(topic, data, requestId)]
    /\ UNCHANGED <<reqVars, mgrVars, dispVars, queueVars, wsReady, bufVars, inbound, last, topicVars, registry>>

SpecNotify ==
    Init /\ [][\E by \in {"starling", "context"},
                  topic \in {"user:presence", "chat:message", "req-1:progress", "a"},
                  data \in {"d1", "d2", "d3", "d4"},
                  requestId \in {"req-1", "req-2", "req-3", "req-4"} :
                   Notify(by, topic, data, requestId)]_vars

\* ------------------------------------------------------------------ claims
Terminal(r) == r.st \in {"fulfilled", "rejected"}

\* The part of a Request its holder can observe.
Observed(r) == <<r.st, r.result, r.error, r.emSuccess, r.emError, r.emComplete>>

\* C1: once a Request is fulfilled or rejected, no later handleResponse,
\* handleError, cancel, timer expiry or execute changes its state, result or
\* error, and its success/error/complete listeners are not fired again.
C1_TerminalIsSticky ==
    [][\A i \in Ids : Terminal(req[i]) => Observed(req'[i]) = Observed(req[i])]_vars

\* C3: a request observes at most one response, and none of its progress or
\* notification listeners is invoked once it has terminated.
C3_NoDeliveryAfterTermination ==
    /\ \A i \in Ids : req[i].emSuccess + req[i].emError <= 1
    /\ last.kind = "listener" => ~Terminal(req[last.id])

\* C4: every request submitted through RequestsManager.execute with
\* timeout > 0 and noResponse = false is eventually fulfilled or rejected,
\* provided timers fire.
C4_ManagedRequestTerminates ==
    \A i \in Ids :
        (i \in SeqToSet(active) /\ req[i].opts.timeout > 0 /\ ~req[i].opts.noResponse)
            ~> Terminal(req[i])

\* C8: a response frame for an id of the active table resolves the request
\* with exactly the frame's data (success) or rejects it with the frame's
\* error (failure), and the id then leaves the active table.
C8_ResponseDeliveredVerbatim ==
    [][\A i \in Ids, ok \in BOOLEAN, d \in DataVals :
          (i \in SeqToSet(active) /\ req[i].st = "pending" /\ MgrHandleResponse(i, ok, d))
              => /\ ok => (req'[i].st = "fulfilled" /\ req'[i].result = d)
                 /\ ~ok => (req'[i].st = "rejected" /\ req'[i].error = "REMOTE_ERROR")
                 /\ i \notin SeqToSet(active')]_vars

\* C9: a response for a request that already timed out is reported as
\* request:late_response and the request keeps its REQUEST_TIMEOUT outcome;
\* a response for an id that was never issued is request:unknown_response.
C9_LateResponseAttributed ==
    last.kind = "event" /\ last.what # "request:completed" =>
        /\ last.id \in Ids /\ req[last.id].error = "REQUEST_TIMEOUT"
              => last.what = "request:late_response"
        /\ (last.id = ForeignId \/ last.id > created)
              => last.what = "request:unknown_response"

\* C2: a request context sends at most one response frame whatever the
\* handler, the fallbacks and the timer do, and a reply attempted on a
\* processed context raises the usage error and sends nothing.
C2_SingleResponseFrame ==
    /\ [](\A c \in Ctxs : Len(ctx[c].frames) <= 1)
    /\ [][\A c \in Ctxs :
            (ctx[c].processed /\ ctx'[c].replies = ctx[c].replies + 1)
                => /\ ctx'[c].frames = ctx[c].frames
                   /\ ctx'[c].usage = ctx[c].usage + 1]_vars

\* A handler that replied after the timeout reply and then threw: one frame,
\* usage errors raised.
C2_Witness ==
    \E c \in Ctxs :
        /\ ctx[c].handler = "threw"
        /\ ctx[c].usage >= 2
        /\ Len(ctx[c].frames) = 1
        /\ ctx[c].frames[1].code = REQUEST_TIMEOUT

\* C5: every inbound request is eventually answered: with REQUEST_TIMEOUT
\* when the timer finds the context unprocessed, and with METHOD_ERROR
\* "Method did not provide a response" when the handler returns without
\* having replied.
C5_EveryRequestAnswered ==
    /\ \A c \in Ctxs : (ctx[c].st = "live") ~> (Len(ctx[c].frames) >= 1)
    /\ [][\A c \in Ctxs :
            /\ (DispatchTimerFire(c) /\ ~ctx[c].processed)
                  => (Len(ctx'[c].frames) = 1 /\ ctx'[c].frames[1].code = REQUEST_TIMEOUT)
            /\ (HandlerReturn(c) /\ ~ctx[c].processed)
                  => /\ Len(ctx'[c].frames) = 1
                     /\ ctx'[c].frames[1].code = METHOD_ERROR
                     /\ ctx'[c].frames[1].message = "Method did not provide a response"]_vars

\* C6: the timer the dispatcher arms for a request runs for the timeout the
\* method was registered with, and for 30000 ms when none was given.
C6_TimerIsMethodTimeout ==
    \A c \in Ctxs :
        ctx[c].timer =>
            ctx[c].delay = IF "timeout" \in DOMAIN RegisteredOptions(ctx[c].method)
                           THEN RegisteredOptions(ctx[c].method).timeout
                           ELSE 30000

\* What an unregistered method's request yields: METHOD_NOT_FOUND, no handler.
NotFoundAnswered(x) ==
    /\ x.handler = "none"
    /\ Len(x.frames) = 1
    /\ x.frames[1].code = METHOD_NOT_FOUND

C10_FullQueueRefuses ==
    [][\A o \in ReqOptions :
          (QueueAdd(o) /\ ~connected /\ qcfg.onFull \in {"drop", "error"}) =>
              IF Len(queue) < qcfg.maxSize
              THEN /\ last' = Returned(created', "true")
                   /\ queue' = Append(queue, QueueEntry(created'))
              ELSE /\ Len(queue) = qcfg.maxSize
                   /\ queue' = queue
                   /\ last' = IF qcfg.onFull = "drop" THEN Returned(created', "false")
                              ELSE Threw(created', "Queue is full")]_vars

\* The (N+1)-th add was refused under drop: N entries queued, false returned.
C10_Witness ==
    /\ ~connected
    /\ qcfg.onFull = "drop"
    /\ Len(queue) = qcfg.maxSize
    /\ created = qcfg.maxSize + 1
    /\ last = Returned(created, "false")

\* C11: the request queue never holds more than maxSize entries, under every
\* onFull policy and also when several add() calls parked by the block policy
\* are released together.
C11_QueueWithinCapacity == Len(queue) <= qcfg.maxSize

\* The requests the scheduler has executed that are still pending.
InFlight == {i \in Ids : req[i].promise /\ req[i].st = "pending"}

\* C12: the number of requests the queue has executed and that have not yet
\* terminated never exceeds maxConcurrent, and each of them is still in the
\* queue.
C12_ConcurrencyBounded ==
    /\ Cardinality(InFlight) <= qcfg.maxConcurrent
    /\ InFlight \subseteq SeqToSet(EntryIds(queue))

\* The scheduler executes request i in this step.
Executes(i) == ~req[i].promise /\ req'[i].promise

\* Position of request i in queue q.
Pos(q, i) == CHOOSE n \in 1..Len(q) : q[n].id = i

\* C13: a request the scheduler executes is queued and, without
\* priorityQueuing, precedes every other queued request that is still waiting
\* to be executed; with priorityQueuing no waiting request has a strictly
\* higher priority, and those of equal priority were enqueued later. Requests
\* enqueued during a pass count as well.
C13_SelectionOrder ==
    [][\A i \in Ids : Executes(i) =>
          /\ i \in SeqToSet(EntryIds(queue'))
          /\ \A n \in 1..Len(queue') :
                (/\ queue'[n].id # i
                 /\ ~req'[queue'[n].id].promise
                 /\ req'[queue'[n].id].st = "pending")
                => IF qcfg.priorityQueuing
                   THEN \/ queue'[n].priority < queue'[Pos(queue', i)].priority
                        \/ /\ queue'[n].priority = queue'[Pos(queue', i)].priority
                           /\ n > Pos(queue', i)
                   ELSE n > Pos(queue', i)]_vars

\* The execution of queued request i fails in this step: starling.send throws
\* inside execute(), or the transport fails to write the frame.
ExecutionFails(i) == (Executes(i) /\ req'[i].error = SendError) \/ SendFailed(i)

\* C14: when the execution of a queued request fails, the request stays
\* pending in the queue with its retryCount incremented, or, the retries being
\* used up, it is rejected with QUEUE_RETRY_EXCEEDED and is no longer queued.
C14_FailedExecutionRetried ==
    [][\A i \in Ids : ExecutionFails(i) =>
          \/ /\ req'[i].st = "pending"
             /\ \E n \in 1..Len(queue') : queue'[n].id = i /\ queue'[n].retryCount > 0
          \/ /\ req'[i].error = "QUEUE_RETRY_EXCEEDED"
             /\ i \notin SeqToSet(EntryIds(queue'))]_vars

\* C15: when the drain monitor's timer fires, every queued entry older than
\* drainTimeout leaves the queue, and its request, if it was pending, is
\* rejected with QUEUE_DRAIN_TIMEOUT.
C15_DrainTimeoutExpires ==
    [][\A k \in 0..MaxAdds : DrainTimerFire(k) =>
          /\ queue' = SubSeq(queue, k + 1, Len(queue))
          /\ \A n \in 1..k : req[queue[n].id].st = "pending" =>
                /\ req'[queue[n].id].st = "rejected"
                /\ req'[queue[n].id].error = "QUEUE_DRAIN_TIMEOUT"]_vars

Cancelled(r) == r.st = "rejected" /\ r.error = "REQUEST_CANCELLED"

\* C16: cancel() on a pending request, executed or not, rejects it with
\* REQUEST_CANCELLED and leaves no timer armed; from then on no timer is armed
\* for it and the scheduler hands no frame of it to starling.send.
C16_CancelledNeverExecuted ==
    [][\A i \in Ids :
          /\ (AppCancel(i) /\ req[i].st = "pending") => (Cancelled(req'[i]) /\ ~req'[i].timer)
          /\ Cancelled(req[i]) =>
                (Cancelled(req'[i]) /\ ~req'[i].timer /\ req'[i].sent = req[i].sent)]_vars

\* C17: after cancelAll(reason) or dispose() every request that was active or
\* queued and pending is rejected with REQUEST_CANCELLED, and the queue, the
\* active table and the expired table are empty.
C17_CancelAllEmptiesManager ==
    [][MgrCancelAll =>
          /\ \A i \in SeqToSet(active) \cup SeqToSet(EntryIds(queue)) :
                req[i].st = "pending" => Cancelled(req'[i])
          /\ queue' = <<>>
          /\ active' = <<>>
          /\ expired' = {}]_vars

\* C18: of two frames written in the same connected interval, the one given
\* to the send buffer first is written first.
C18_BufferKeepsOrder ==
    \A m, n \in 1..Len(wire) :
        (wire[m].frame.n < wire[n].frame.n /\ wire[m].epoch = wire[n].epoch) => m < n

\* Two frames went out in one batch.
C18_Witness ==
    /\ Len(wire) >= 2
    /\ wire[1].epoch = wire[2].epoch
    /\ buf = <<>>
    /\ last = Emitted(ForeignId, "message:send:success")

\* C19: while the node is not connected no frame is written to the transport
\* and the frames held by the send buffer stay held; every write happens in
\* state connected.
C19_NoWriteWhileDisconnected ==
    [][/\ ~IsConnected(wsReady) =>
            /\ wire' = wire
            /\ SubSeq(buf', 1, Len(buf)) = buf
       /\ \A n \in 1..Len(wire') : wire'[n].state = "connected"]_vars

\* A frame added while disconnected has been written after the node connected.
C19_Witness ==
    \E n \in 1..Len(wire) : ~wire[n].frame.up /\ wire[n].state = "connected"

\* C20: for a protocol frame with violations, message:protocol_error is
\* emitted exactly once, with the violation list, exactly one error frame of
\* severity protocol and code PROTOCOL_VIOLATION is sent, and no sub-handler
\* is given the frame.
C20_ViolationReportedOnce ==
    (inbound.frame.format = "protocol" /\ Resolve(inbound.frame).violations # <<>>) =>
        /\ inbound.events =
              <<[name |-> "message:protocol_error",
                 violations |-> Resolve(inbound.frame).violations]>>
        /\ Len(inbound.sent) = 1
        /\ inbound.sent[1].type = "error"
        /\ inbound.sent[1].severity = "protocol"
        /\ inbound.sent[1].code = "PROTOCOL_VIOLATION"
        /\ inbound.routed = "none"

\* A request frame whose only fault is its malformed version was delivered.
C20_Witness ==
    /\ inbound.frame.format = "protocol"
    /\ inbound.frame.type = "request"
    /\ inbound.frame.version = "malformed"
    /\ Len(Resolve(inbound.frame).violations) = 1
    /\ Len(inbound.sent) = 1

\* C21: validation reports the envelope violations and the type-specific
\* violations of a frame together; for the request frame with version "1.0",
\* timestamp 0 and neither requestId nor method, message:protocol_error
\* carries at least 3 violations.
C21_AllViolationsReported ==
    (/\ inbound.frame.format = "protocol"
     /\ inbound.frame.type \in {"request", "response", "notification", "error", "ack"}
     /\ ValidateBase(inbound.frame) \o inbound.frame.body # <<>>)
    => /\ Len(inbound.events) = 1
       /\ inbound.events[1].violations = ValidateBase(inbound.frame) \o inbound.frame.body
       /\ (/\ inbound.frame.version = "malformed"
           /\ inbound.frame.timestamp = "invalid"
           /\ inbound.frame.type = "request"
           /\ Len(inbound.frame.body) = 2) => Len(inbound.events[1].violations) >= 3

\* C22: when processing a well-formed protocol frame throws inside the
\* kernel, the node emits message:internal_error and sends a top-level error
\* of severity application and code INTERNAL_ERROR, and nothing escapes as an
\* exception or an unhandled rejection.
C22_InternalErrorReported ==
    (IsValid(Resolve(inbound.frame)) /\ inbound.thrown # "none")
    => /\ inbound.thrown = "caught"
       /\ \E k \in 1..Len(inbound.events) : inbound.events[k].name = "message:internal_error"
       /\ ApplicationError("INTERNAL_ERROR") \in SeqToSet(inbound.sent)

C24_NotificationRoutedOnce ==
    (/\ RoutedTo(Resolve(inbound.frame)) = "notification"
     /\ inbound.frame.peer \in {"absent", "false"})
    => inbound.dest = IF inbound.frame.requestId THEN "requests" ELSE "topics"

\* C25: a correlated notification the remote handler produced with
\* context.progress(...) fires the request's progress listeners and not its
\* notification listeners; every other correlated notification fires the
\* notification listeners and not the progress listeners.
C25_ProgressSeparated ==
    [][\A i \in Ids, t \in NotifTypes :
          MgrHandleNotification(i, t)
          => last' = Fired(i, IF t = "progress" THEN "progress" ELSE "notification")]_vars

\* C26: a notify, warn or progress call on a request context that has sent
\* its terminal reply raises the usage error and sends nothing: once the
\* context is processed the number of notifications it has handed to the
\* send path never grows.
C26_NoNotificationAfterReply ==
    [][\A c \in Ctxs :
          /\ ctx[c].processed => ctx'[c].notes = ctx[c].notes
          /\ (HandlerNotify(c) /\ ctx[c].processed) => ctx'[c].usage = ctx[c].usage + 1]_vars

\* A handler that notified, replied, and then called notify again.
C26_Witness ==
    \E c \in Ctxs :
        /\ ctx[c].processed
        /\ ctx[c].notes = 1
        /\ ctx[c].replies = 1
        /\ ctx[c].usage = 1
        /\ Len(ctx[c].frames) = 1

\* C27: the matcher built from pattern p accepts topic t exactly when t has
\* as many colon-separated segments as p and every segment of p that is not
\* "*" equals the segment of t at the same position.
C27_MatcherBySegments ==
    matcher.result # "unset"
    => (matcher.result = "accept"
        <=> /\ Len(matcher.topic) = Len(matcher.pattern)
            /\ \A k \in 1..Len(matcher.pattern) :
                  matcher.pattern[k] = <<"*">> \/ matcher.pattern[k] = matcher.topic[k])

\* The pattern a:* accepted the topic a:ab.
C27_Witness ==
    /\ matcher.pattern = << <<"a">>, <<"*">> >>
    /\ matcher.topic = << <<"a">>, <<"a", "b">> >>
    /\ matcher.result = "accept"

\* C28: when a subscriber of a topic throws or rejects while handling a
\* notification, topic:error is emitted for it and every other subscriber
\* whose pattern matches the topic is still invoked.
C28_FailingSubscriberIsolated ==
    [][\A t \in NotifTopics :
          TopicsHandleNotification(t) =>
              LET Matches(k) ==
                      /\ Len(subs[k].pattern) = Len(t)
                      /\ \A j \in 1..Len(t) :
                            subs[k].pattern[j] = <<"*">> \/ subs[k].pattern[j] = t[j]
              IN  \A k \in 1..Len(subs) :
                      (Matches(k) /\ subs[k].fails)
                      => /\ k \in SeqToSet(topicRun'.errors)
                         /\ \A j \in 1..Len(subs) :
                               Matches(j) => j \in SeqToSet(topicRun'.invoked)]_vars

\* The first of two subscribers failed and the second was invoked after it.
C28_Witness ==
    /\ Len(subs) = 2
    /\ subs[1].fails /\ ~subs[2].fails
    /\ topicRun.invoked = <<1, 2>>
    /\ topicRun.errors = <<1>>

\* C29: once the connection has been lost, a subscription made without
\* persistent is not invoked for any later notification, and a persistent
\* one whose pattern matches still is.
C29_NonPersistentDropped ==
    [][\A t \in NotifTopics :
          TopicsHandleNotification(t) =>
              \A k \in 1..Len(subs) :
                  subs[k].cut =>
                      IF subs[k].persistent
                      THEN RegexTest(Join(subs[k].pattern), Join(t))
                              => k \in SeqToSet(topicRun'.invoked)
                      ELSE k \notin SeqToSet(topicRun'.invoked)]_vars

\* C30 (as stated): register fails when the name is already registered or
\* when its namespace is reserved, and the registry is then unchanged.
C30_RegisterRejects ==
    [][\A n \in RegistryNames, h \in {"h1", "h2"}, internal \in BOOLEAN :
          (Register(n, h, internal)
              /\ (registry[n] # "none" \/ Head(n) \in {"system", "internal", "stream", "helios"}))
          => (last'.kind = "throw" /\ registry' = registry)]_vars

\* C30 (amended): a register call without internal fails when the name is
\* already registered or when its namespace is reserved, and the registry is
\* then unchanged; a register call with internal: true makes none of these
\* checks: it stores the handler under the name, replacing the one that was
\* registered.
C30_UserRegisterRejects ==
    [][\A n \in RegistryNames, h \in {"h1", "h2"}, internal \in BOOLEAN :
          Register(n, h, internal)
          => IF internal
             THEN last'.kind = "event" /\ registry' = [registry EXCEPT ![n] = h]
             ELSE (registry[n] # "none" \/ Head(n) \in {"system", "internal", "stream", "helios"})
                  => (last'.kind = "throw" /\ registry' = registry)]_vars

\* A second registration of user:get was refused and the first handler is
\* still the registered one.
C30_Witness ==
    /\ registry[<<"user", "get">>] = "h1"
    /\ last = Threw(ForeignId, "Method already exists")

\* C31: validateBaseMessage never throws, and a message whose protocol,
\* version, timestamp or type is missing or corrupted comes back with
\* valid = false and an error that names the field; every type other than
\* request, response, notification, error, ack and ping is such a corruption,
\* the empty string and a part of a type name included.
C31_CorruptedFieldRejected ==
    checked.done =>
        LET m == checked.message
            out == checked.outcome
        IN  /\ ~out.threw
            /\ (~m.has.type \/ m.type \notin {<<"r", "e", "q", "u", "e", "s", "t">>,
                                               <<"p", "i", "n", "g">>})
                  => /\ ~out.valid
                     /\ \E k \in 1..Len(out.errors) :
                           out.errors[k] \in {"Missing required field: type", "Invalid type"}
            /\ (~m.has.protocol \/ m.protocol # "helios-starling")
                  => /\ ~out.valid
                     /\ \E k \in 1..Len(out.errors) :
                           out.errors[k] \in {"Missing required field: protocol",
                                              "Invalid protocol: must be \"helios-starling\""}

\* C32: notify(topic, data, requestId), on the node or on a request context,
\* hands to send() an envelope whose notification.topic is the topic given,
\* whose notification.data is the data given and whose requestId is the
\* request id given.
C32_NotifyEnvelope ==
    checked.done =>
        /\ checked.outcome.notification.topic = checked.topic
        /\ checked.outcome.notification.data = checked.data
        /\ checked.outcome.requestId = checked.requestId

\* C33: with onFull = block, an add() parked on a full queue is admitted once
\* there is room again, whether or not the queue has become empty: from any
\* state where it is parked and size < maxSize, it eventually stores its
\* request and returns true.
C33_ParkedAddAdmitted ==
    \A i \in Ids :
        (i \in SeqToSet(waiters) /\ Len(queue) < qcfg.maxSize)
            ~> (last = Returned(i, "true") /\ i \in SeqToSet(EntryIds(queue)))

\* C34: the scheduler executes a queued request only while the node is
\* connected, the remaining entries of a pass that was running when the node
\* disconnected included.
C34_ExecutedOnlyConnected ==
    [][\A i \in Ids : Executes(i) => connected']_vars

\* C37: at most one pass of _processQueue is running (suspended at its await
\* or not) at any time, also when the node disconnects and reconnects while
\* a pass is suspended.
C37_OnePassAtATime == ActiveCount(micro) <= 1

\* C38: a Request is serialised and handed to starling.send at most once,
\* however many times execute() is called on it by repeated or overlapping
\* passes of the scheduler and across reconnections.
C38_SentAtMostOnce == \A i \in Ids : req[i].sent <= 1

\* Two passes are suspended on the same entry: execute() has been called
\* twice on its request, whose frame was handed over once.
C38_Witness ==
    \E m, n \in 1..Len(micro) :
        /\ m < n
        /\ micro[m] = micro[n]
        /\ micro[m].k = "pass"
        /\ req[micro[m].id].sent = 1

\* C35: for every raw message the resolver calls handlers of at most one
\* class among binary, text, foreign JSON, violation and typed; a protocol
\* message with a violation gets the violation handler and no typed handler,
\* and a message without violations never gets the violation handler.
C35_OneHandlerClass ==
    LET names == {inbound.events[n].name : n \in 1..Len(inbound.events)}
        classes == (names \cap {"message:binary", "message:text", "message:json",
                                "message:protocol_error"})
                   \cup (IF inbound.routed # "none" THEN {"typed"} ELSE {})
        violations == Resolve(inbound.frame).violations
    IN  /\ Cardinality(classes) <= 1
        /\ violations # <<>> => classes = {"message:protocol_error"}
        /\ violations = <<>> => "message:protocol_error" \notin names

\* A request whose envelope is well formed and whose body is not has run the
\* violation handler alone.
C35_Witness ==
    /\ inbound.frame.type = "request"
    /\ ValidateBase(inbound.frame) = <<>>
    /\ inbound.frame.body # <<>>
    /\ inbound.routed = "none"
    /\ Len(inbound.events) = 1
    /\ inbound.events[1].name = "message:protocol_error"

\* C40: a node that receives a valid top-level error frame sends no frame;
\* the PROTOCOL_VIOLATION frame a node sends is a valid protocol frame; and so
\* the node that receives the error frame sent for an invalid frame sends
\* nothing back.
C40_ErrorFramesDoNotBounce ==
    /\ (inbound.frame.type = "error" /\ IsValid(Resolve(inbound.frame))) => inbound.sent = <<>>
    /\ \A k \in 1..Len(inbound.sent) :
          inbound.sent[k].code = "PROTOCOL_VIOLATION" =>
              /\ IsValid(Resolve(OnTheWire(inbound.sent[k])))
              /\ \A n \in Nodes : HandleMessage(OnTheWire(inbound.sent[k]), n).sent = <<>>
    /\ Len(inbound.sent) <= 1

\* C36: when _ws.send throws for a frame of a flush, message:send:failed is
\* emitted, nothing is thrown out of _send, every other frame of the batch
\* is written and the frame that failed is not kept by the buffer.
C36_FailedWriteReported ==
    [][\A n \in 1..MaxFrames, bad \in 1..MaxFrames :
          Flush(n, bad) =>
              /\ last' = Emitted(ForeignId, "message:send:failed")
              /\ Len(wire') = Len(wire) + n - 1
              /\ buf' = SubSeq(buf, n + 1, Len(buf))]_vars

\* C39: an id is in the expired table only if its request ended with
\* REQUEST_TIMEOUT, no id is in the active and the expired table at once, and
\* a response for a request that was cancelled or already answered is
\* reported as request:unknown_response.
C39_ExpiredOnlyTimedOut ==
    [][/\ \A i \in expired' :
             /\ req'[i].st = "rejected"
             /\ req'[i].error = "REQUEST_TIMEOUT"
             /\ i \notin SeqToSet(active')
       /\ \A i \in Ids, ok \in BOOLEAN, d \in DataVals :
             (MgrHandleResponse(i, ok, d) /\ (Cancelled(req[i]) \/ req[i].st = "fulfilled"))
                 => last' = Emitted(i, "request:unknown_response")]_vars
====
